---- MODULE Spec2Model ----
(***************************************************************************)
(* A state-machine model of the chess engine of src/Engine/engine.cpp:     *)
(* the transposition table, evaluate, order_moves, quiescence, negamax,    *)
(* the iterative-deepening driver search() and the UCI command loop.       *)
(*                                                                         *)
(* The recursion of negamax/quiescence is an explicit call stack: every    *)
(* action is the code of one function between two calls.  The board and    *)
(* move generator (chess.hpp, not part of src/) are an abstract game: a    *)
(* finite graph of positions, each with its side to move, its legal moves, *)
(* its check flag, its static score and its Zobrist key.                   *)
(***************************************************************************)
EXTENDS Integers, Sequences, FiniteSets, TLC

VARIABLES
    board,          \* ChessEngine::board: [pos, hist] (hist = prev_states_)
    tt,             \* TranspositionTable::table: slot -> TTEntry
    stop_search,    \* ChessEngine::stop_search
    nodes_searched, \* ChessEngine::nodes_searched
    time_limit,     \* ChessEngine::time_limit (ms)
    stack,          \* call stack of search / negamax / quiescence frames
    ret,            \* value returned by the call that returned last
    done,           \* record of the call that returned last (observation)
    stdin,          \* command lines sent by the controller, not yet read
    out,            \* lines written to stdout and stderr, in order
    sess            \* the controller's session: commands sent so far

vars == <<board, tt, stop_search, nodes_searched, time_limit, stack, ret,
          done, stdin, out, sess>>

----------------------------------------------------------------------------
(* Program constants *)

MATE_VALUE == 30000
DRAW_VALUE == 0
INF == 32000
NO_MOVE == 0
PollInterval == 1024

(* Bounds of the model *)

TTBits == 2          \* the table has 2^TTBits slots
MaxDepth == 4        \* deepest "go depth" the controller sends
MaxGo == 2           \* go commands per session
Fan == 10            \* captures per position in the wide capture tree
ChainLen == 13       \* captures in a row in the single-file capture chain

TTSize == 2 ^ TTBits

----------------------------------------------------------------------------
(* The abstract game standing for chess.hpp's Board and movegen.           *)
(* A position is a number; a move is a record: its identity (what Move's   *)
(* from/to/type bits are), the position it leads to, whether it captures,  *)
(* the captured and the moving piece type, and its promotion piece type.   *)

Quiet(id, to) ==
    [id |-> id, to |-> to, cap |-> FALSE, vic |-> "-", att |-> "P", promo |-> "-"]
Capture(id, to, vic, att) ==
    [id |-> id, to |-> to, cap |-> TRUE, vic |-> vic, att |-> att, promo |-> "-"]
Promotion(id, to, pt) ==
    [id |-> id, to |-> to, cap |-> FALSE, vic |-> "-", att |-> "P", promo |-> pt]

(* Named positions.  SW/SB: a quiet position and its reply, moving back    *)
(* and forth.  K0: Black mates in one ply (move 1) or in three (move 2).   *)
(* M0: White mates in one ply (move 1) or captures a pawn (move 5).        *)
(* NR/N0: a root whose second move leads to a position with non-pawn       *)
(* material (null move).  Y0: a position whose Zobrist key equals K0's,    *)
(* with a move to STL, where Black is stalemated.  H0/H1: one placement,   *)
(* H1 with the half-move clock run out.  Q0..: a single file of captures.  *)
(* E0, F0, C0: the way into a wide tree of captures G, H, L; XM: White     *)
(* mated.  RX/NX: a root whose last move leads to NX, where White has      *)
(* non-pawn material and a null move gives C0, the head of the wide tree;  *)
(* the moves before it make the 1024th node fall in that null-move search. *)
SW == 1
SB == 2
K0 == 10
KM1 == 11
K2 == 12
K3 == 13
KM2 == 14
M0 == 20
MM == 21
NR == 30
NA == 31
N0 == 32
N0x == 33
STL == 35
RX == 36
NX == 37
Y0 == 40
H0 == 50
H1 == 51
Q0 == 60
E0 == 100
F0 == 101
C0 == 102
XM == 103
G0 == 200
H00 == 300
L0 == 400

IsQ(p) == p >= Q0 /\ p <= Q0 + ChainLen
IsG(p) == p >= G0 /\ p < G0 + Fan
IsH(p) == p >= H00 /\ p < H00 + 2 * Fan - 1
IsL(p) == p >= L0 /\ p < L0 + 3 * Fan - 2

Positions ==
    {SW, SB, K0, KM1, K2, K3, KM2, M0, MM, NR, NA, N0, N0x, Y0, H0, H1,
     E0, F0, C0, XM, STL, RX, NX}
    \cup (Q0 .. Q0 + ChainLen) \cup (G0 .. G0 + Fan - 1)
    \cup (H00 .. H00 + 2 * Fan - 2) \cup (L0 .. L0 + 3 * Fan - 3)

(* Capture kinds <<captured, capturing>> in strictly decreasing order of   *)
(* their ordering key piece_values[captured] - piece_values[moving] + 1000 *)
CaptureKinds ==
    << <<"B","P">>, <<"N","P">>, <<"R","N">>, <<"R","B">>, <<"B","N">>,
       <<"P","P">>, <<"N","B">>, <<"B","R">>, <<"N","R">>, <<"P","N">>,
       <<"P","B">>, <<"R","Q">> >>

FanCaptures(first, step) ==
    [i \in 1..Fan |->
        Capture(10 + i, first + step * (i - 1),
                CaptureKinds[i][1], CaptureKinds[i][2])]

SideToMove(p) ==
    CASE p \in {SW, M0, KM1, K2, KM2, NA, N0, Y0, H0, H1, F0, XM, NX} -> "w"
      [] p \in {SB, K0, K3, MM, NR, N0x, E0, C0, STL, RX} -> "b"
      [] IsQ(p) -> IF (p - Q0) % 2 = 0 THEN "w" ELSE "b"
      [] IsG(p) -> "w"
      [] IsH(p) -> "b"
      [] IsL(p) -> "w"

legalmoves(p) ==
    CASE p = SW -> << Quiet(1, SB) >>
      [] p = SB -> << Quiet(1, SW) >>
      [] p = K0 -> << Quiet(1, KM1), Quiet(2, K2) >>
      [] p = K2 -> << Quiet(3, K3) >>
      [] p = K3 -> << Quiet(4, KM2), Quiet(5, SW) >>
      [] p = M0 -> << Capture(5, SB, "P", "P"), Quiet(1, MM) >>
      [] p = NR -> << Quiet(1, NA), Quiet(2, N0) >>
      [] p = NA -> << Quiet(3, SB) >>
      [] p = N0 -> << Quiet(4, SB) >>
      [] p = N0x -> << Quiet(5, SW) >>
      [] p = Y0 -> << Quiet(6, SB), Quiet(7, STL) >>
      [] p \in {H0, H1} -> << Quiet(8, SB) >>
      [] p = RX -> << Quiet(1, G0), Quiet(3, G0 + 1), Quiet(4, Q0),
                      Quiet(2, NX) >>
      [] p = NX -> << Quiet(3, SB) >>
      [] p = E0 -> << Quiet(1, F0) >>
      [] p = F0 -> << Quiet(1, C0) >>
      [] p = C0 -> FanCaptures(G0 + Fan - 1, -1) \o << Promotion(9, XM, "Q") >>
      [] IsG(p) -> FanCaptures(H00 + (p - G0), 1)
      [] IsH(p) -> FanCaptures(L0 + (p - H00) + Fan - 1, -1)
      [] IsL(p) -> << Quiet(1, SB) >>
      [] IsQ(p) /\ p < Q0 + ChainLen -> << Capture(2, p + 1, "P", "P") >>
      [] p = Q0 + ChainLen -> << Quiet(1, IF SideToMove(p) = "w" THEN SB ELSE SW) >>
      [] OTHER -> << >>

inCheck(p) == p \in {KM1, KM2, MM, XM}

hasNonPawnMaterial(p) == p \in {N0, N0x, NX}

isHalfMoveDraw(p) == p = H1

(* The position after a null move: the same placement, the other side to   *)
(* move.  Only N0 and NX are ever asked.                                   *)
NullTarget(p) ==
    IF p = N0 THEN N0x ELSE IF p = N0x THEN N0 ELSE IF p = NX THEN C0 ELSE p

(* Board::hash(): Y0 collides with K0; the half-move clock is no part of   *)
(* the key, so H1 has H0's.                                                *)
hash(p) == CASE p = Y0 -> K0 [] p = H1 -> H0 [] OTHER -> p

(* The static score of a position without a game result, from White's      *)
(* side: what lines 171-252 of evaluate() add up before the final sign.    *)
WhiteScore(p) ==
    CASE p \in {SW, SB} -> 10
      [] p \in {K0, K2, K3} -> -60
      [] p = M0 -> 30
      [] p = NR -> -20
      [] p = NA -> -40
      [] p \in {N0, N0x} -> 400
      [] p = Y0 -> 15
      [] p \in {H0, H1} -> 25
      [] p \in {E0, F0} -> 0
      [] p \in {C0, NX} -> 5000
      [] IsG(p) -> -5000
      [] IsH(p) -> 5000
      [] IsL(p) -> (p - L0) - (Fan - 1)
      [] IsQ(p) -> IF (p - Q0) % 2 = 0 THEN -700 + 50 * (p - Q0)
                                       ELSE 700 - 50 * (p - Q0)
      [] OTHER -> 0

----------------------------------------------------------------------------
(* Board: the position and the stack of earlier positions (prev_states_).  *)

NewBoard(p) == [pos |-> p, hist |-> << >>]

makeMove(b, m) == [pos |-> m.to, hist |-> Append(b.hist, b.pos)]

unmakeMove(b) ==
    [pos |-> b.hist[Len(b.hist)], hist |-> SubSeq(b.hist, 1, Len(b.hist) - 1)]

makeNullMove(b) == [pos |-> NullTarget(b.pos), hist |-> Append(b.hist, b.pos)]

unmakeNullMove(b) == unmakeMove(b)

(* Board::isRepetition(count = 2): two earlier positions with the same key *)
(* and the same side to move.                                              *)
isRepetition(b) ==
    Cardinality({i \in 1..Len(b.hist) :
                    /\ (Len(b.hist) - i) % 2 = 1
                    /\ hash(b.hist[i]) = hash(b.pos)}) >= 2

(* Board::isGameOver(), its reason only.                                   *)
isGameOver(b) ==
    IF isHalfMoveDraw(b.pos)
    THEN (IF legalmoves(b.pos) = << >> /\ inCheck(b.pos)
          THEN "CHECKMATE" ELSE "FIFTY_MOVE_RULE")
    ELSE IF isRepetition(b) THEN "THREEFOLD_REPETITION"
    ELSE IF legalmoves(b.pos) = << >>
    THEN (IF inCheck(b.pos) THEN "CHECKMATE" ELSE "STALEMATE")
    ELSE "NONE"

(* movegen::legalmoves<CAPTURE>: the legal moves that capture, in order.   *)
RECURSIVE SelectCaptures(_)
SelectCaptures(ms) ==
    IF ms = << >> THEN << >>
    ELSE IF Head(ms).cap THEN << Head(ms) >> \o SelectCaptures(Tail(ms))
    ELSE SelectCaptures(Tail(ms))

capturemoves(p) == SelectCaptures(legalmoves(p))

MoveIds(ms) == {ms[i].id : i \in 1..Len(ms)}

----------------------------------------------------------------------------
(* TranspositionTable *)

EmptyEntry ==
    [key |-> 0, best_move |-> NO_MOVE, depth |-> 0, score |-> 0, flag |-> "TT_EXACT"]

EmptyTable == [i \in 0..TTSize - 1 |-> EmptyEntry]

TTIndex(key) == key % TTSize

(* A store that replaces whatever the slot holds: the faulty variant that  *)
(* StorePolicy rules out.                                                  *)
storeAlways(t, key, move, depth, score, flag) ==
    [t EXCEPT ![TTIndex(key)] =
        [key |-> key, best_move |-> move, depth |-> depth,
         score |-> score, flag |-> flag]]

store(t, key, move, depth, score, flag) ==
    LET index == TTIndex(key)
        entry == t[index]
    IN  IF entry.key = 0 \/ entry.depth <= depth \/ entry.key = key
        THEN [t EXCEPT ![index] =
                [key |-> key, best_move |-> move, depth |-> depth,
                 score |-> score, flag |-> flag]]
        ELSE t

(* probe: hit tells whether a pointer or nullptr is returned.              *)
probe(t, key) ==
    LET entry == t[TTIndex(key)]
    IN  [hit |-> entry.key = key, entry |-> entry]

clear(t) == EmptyTable

----------------------------------------------------------------------------
(* ChessEngine: pure parts *)

piece_values(pt) ==
    CASE pt = "P" -> 100 [] pt = "N" -> 320 [] pt = "B" -> 330
      [] pt = "R" -> 500 [] pt = "Q" -> 900 [] pt = "K" -> 20000
      [] OTHER -> 0

evaluate(b) ==
    IF isGameOver(b) # "NONE"
    THEN IF isGameOver(b) = "CHECKMATE"
         THEN (IF SideToMove(b.pos) = "w" THEN -MATE_VALUE ELSE MATE_VALUE)
         ELSE DRAW_VALUE
    ELSE IF SideToMove(b.pos) = "w" THEN WhiteScore(b.pos) ELSE -WhiteScore(b.pos)

(* The key with a transposition-table bonus of 1000 instead of the 10000   *)
(* of line 262: the faulty variant that TTMoveFirst rules out.             *)
MoveKeySmallBonus(move, tt_move) ==
    (IF move.id = tt_move THEN 1000
     ELSE IF move.cap THEN piece_values(move.vic) - piece_values(move.att) + 1000
     ELSE IF move.promo # "-" THEN piece_values(move.promo) + 500
     ELSE 0)
    + (IF inCheck(move.to) THEN 100 ELSE 0)

(* The key order_moves gives one move.                                     *)
MoveKey(move, tt_move) ==
    (IF move.id = tt_move THEN 10000
     ELSE IF move.cap THEN piece_values(move.vic) - piece_values(move.att) + 1000
     ELSE IF move.promo # "-" THEN piece_values(move.promo) + 500
     ELSE 0)
    + (IF inCheck(move.to) THEN 100 ELSE 0)

(* std::sort by key, descending.  The move lists here are short enough for *)
(* std::sort to be an insertion sort, which keeps moves with equal keys in *)
(* their order.                                                            *)
RECURSIVE InsertByKey(_, _)
InsertByKey(sorted, e) ==
    IF sorted = << >> THEN << e >>
    ELSE IF Head(sorted).key >= e.key
    THEN << Head(sorted) >> \o InsertByKey(Tail(sorted), e)
    ELSE << e >> \o sorted

RECURSIVE SortByKey(_)
SortByKey(keyed) ==
    IF keyed = << >> THEN << >>
    ELSE InsertByKey(SortByKey(SubSeq(keyed, 1, Len(keyed) - 1)), keyed[Len(keyed)])

RECURSIVE Keyed(_, _)
Keyed(moves, tt_move) ==
    IF moves = << >> THEN << >>
    ELSE << [key |-> MoveKey(Head(moves), tt_move), move |-> Head(moves)] >>
         \o Keyed(Tail(moves), tt_move)

RECURSIVE Moves(_)
Moves(keyed) ==
    IF keyed = << >> THEN << >> ELSE << Head(keyed).move >> \o Moves(Tail(keyed))

order_moves(moves, tt_move) == Moves(SortByKey(Keyed(moves, tt_move)))

is_move_legal(b, move) == move \in MoveIds(legalmoves(b.pos))

get_first_legal_move(b) ==
    IF legalmoves(b.pos) # << >> THEN legalmoves(b.pos)[1].id ELSE NO_MOVE

----------------------------------------------------------------------------
(* The engine's state as one record, and the call stack.                   *)

Cur ==
    [board |-> board, tt |-> tt, stop_search |-> stop_search,
     nodes_searched |-> nodes_searched, time_limit |-> time_limit,
     stack |-> stack, ret |-> ret, done |-> done, out |-> out]

Becomes(m) ==
    /\ board' = m.board
    /\ tt' = m.tt
    /\ stop_search' = m.stop_search
    /\ nodes_searched' = m.nodes_searched
    /\ time_limit' = m.time_limit
    /\ stack' = m.stack
    /\ ret' = m.ret
    /\ done' = m.done
    /\ out' = m.out

(* A frame: the arguments and locals of one call.  a0 and b0 keep alpha    *)
(* and the board as they were at the call.                                 *)
NewFrame(fn, depth, alpha, beta, nullok, b) ==
    [fn |-> fn, pc |-> "enter", depth |-> depth, alpha |-> alpha, beta |-> beta,
     a0 |-> alpha, nullok |-> nullok, key |-> 0, tt_move |-> NO_MOVE,
     moves |-> << >>, i |-> 0, best_score |-> -INF, best_move |-> NO_MOVE,
     flag |-> "TT_ALPHA", max_depth |-> 0, b0 |-> b]

NoCall ==
    [fn |-> "none", depth |-> 0, alpha |-> 0, cur_alpha |-> 0, beta |-> 0,
     score |-> 0, via |-> "none", balanced |-> TRUE, stopped |-> FALSE,
     pos |-> 0, nodes |-> 0, best_move |-> NO_MOVE]

TopOf(m) == m.stack[Len(m.stack)]

SetTop(m, f) == [m EXCEPT !.stack[Len(m.stack)] = f]

(* The call fn(depth, alpha, beta, nullok) on the board as it is in m.     *)
Call(m, fn, depth, alpha, beta, nullok) ==
    [m EXCEPT !.stack = Append(@, NewFrame(fn, depth, alpha, beta, nullok, m.board))]

(* The top frame returns v; via names the return statement.                *)
Return(m, v, via) ==
    LET f == TopOf(m)
    IN  [m EXCEPT !.stack = SubSeq(@, 1, Len(@) - 1),
                  !.ret = v,
                  !.done = [fn |-> f.fn, depth |-> f.depth, alpha |-> f.a0,
                            cur_alpha |-> f.alpha, beta |-> f.beta, score |-> v,
                            via |-> via, balanced |-> (m.board = f.b0),
                            stopped |-> m.stop_search, pos |-> f.b0.pos,
                            nodes |-> m.nodes_searched, best_move |-> f.best_move]]

Max(a, b) == IF a >= b THEN a ELSE b

----------------------------------------------------------------------------
(* quiescence(alpha, beta, depth), lines 287-321                           *)

(* lines 309-311 and 320: the next capture, or the end of the loop.        *)
QuiescenceLoop(m) ==
    LET f == TopOf(m)
    IN  IF f.i > Len(f.moves)
        THEN Return(m, f.alpha, "alpha")
        ELSE Call(SetTop([m EXCEPT !.board = makeMove(@, f.moves[f.i])],
                         [f EXCEPT !.pc = "move"]),
                  "quiescence", f.depth + 1, -f.beta, -f.alpha, TRUE)

(* quiescence with its depth test one off (depth > 11): the faulty variant *)
(* that QuiescenceBounded rules out.                                       *)
QuiescenceEnterDeeper(m, expired) ==
    LET f == TopOf(m)
        n1 == m.nodes_searched + 1
        m1 == [m EXCEPT !.nodes_searched = n1]
        stand_pat == evaluate(m.board)
        moves == order_moves(capturemoves(m.board.pos), NO_MOVE)
    IN  IF f.depth > 11 THEN Return(m, evaluate(m.board), "qlimit")
        ELSE IF n1 % PollInterval = 0 /\ expired
        THEN Return([m1 EXCEPT !.stop_search = TRUE], f.alpha, "time")
        ELSE IF stand_pat >= f.beta THEN Return(m1, f.beta, "standpat")
        ELSE QuiescenceLoop(SetTop(m1, [f EXCEPT !.alpha = Max(f.alpha, stand_pat),
                                                  !.moves = moves, !.i = 1]))

(* lines 288-307: from the entry to the first recursive call.              *)
QuiescenceEnter(m, expired) ==
    LET f == TopOf(m)
        n1 == m.nodes_searched + 1
        m1 == [m EXCEPT !.nodes_searched = n1]
        stand_pat == evaluate(m.board)
        alpha1 == Max(f.alpha, stand_pat)
        moves == order_moves(capturemoves(m.board.pos), NO_MOVE)
    IN  IF f.depth > 10 THEN Return(m, evaluate(m.board), "qlimit")
        ELSE IF n1 % PollInterval = 0 /\ expired
        THEN Return([m1 EXCEPT !.stop_search = TRUE], f.alpha, "time")
        ELSE IF stand_pat >= f.beta THEN Return(m1, f.beta, "standpat")
        ELSE QuiescenceLoop(SetTop(m1, [f EXCEPT !.alpha = alpha1,
                                                  !.moves = moves, !.i = 1]))

(* lines 311-318: the recursive call has returned.                         *)
QuiescenceAfterMove(m) ==
    LET f == TopOf(m)
        score == -m.ret
        m1 == [m EXCEPT !.board = unmakeMove(@)]
    IN  IF m.stop_search THEN Return(m1, f.alpha, "stop")
        ELSE IF score >= f.beta THEN Return(m1, f.beta, "beta")
        ELSE QuiescenceLoop(SetTop(m1, [f EXCEPT !.alpha = Max(f.alpha, score),
                                                  !.i = f.i + 1]))

----------------------------------------------------------------------------
(* negamax(depth, alpha, beta, null_move_allowed), lines 323-433           *)

(* lines 396-409 and 431-432: the next move, or the end of the loop.       *)
NegamaxLoop(m) ==
    LET f == TopOf(m)
    IN  IF f.i > Len(f.moves)
        THEN Return([m EXCEPT !.tt = store(@, f.key, f.best_move, f.depth,
                                           f.best_score, f.flag)],
                    f.best_score, "best")
        ELSE LET m1 == SetTop([m EXCEPT !.board = makeMove(@, f.moves[f.i])],
                              [f EXCEPT !.pc = "move"])
             IN  IF f.i = 1
                 THEN Call(m1, "negamax", f.depth - 1, -f.beta, -f.alpha, TRUE)
                 ELSE Call(m1, "negamax", f.depth - 1, -f.alpha - 1, -f.alpha, TRUE)

(* lines 380-394: move generation, ordering, the loop's locals.            *)
NegamaxMoves(m) ==
    LET f == TopOf(m)
        moves == legalmoves(m.board.pos)
    IN  IF moves = << >>
        THEN (IF inCheck(m.board.pos)
              THEN Return(m, -MATE_VALUE + m.nodes_searched, "nomoves_mate")
              ELSE Return(m, DRAW_VALUE, "nomoves_draw"))
        ELSE NegamaxLoop(SetTop(m, [f EXCEPT !.moves = order_moves(moves, f.tt_move),
                                             !.i = 1, !.best_score = -INF,
                                             !.best_move = NO_MOVE,
                                             !.flag = "TT_ALPHA"]))

(* The cut without the depth test of line 343: the faulty variant that     *)
(* TTDecides rules out.                                                     *)
TTCutAnyDepth(pr, depth, alpha, beta) ==
    IF pr.hit
    THEN IF pr.entry.flag = "TT_EXACT" THEN [cut |-> TRUE, score |-> pr.entry.score, via |-> "tt_exact"]
         ELSE IF pr.entry.flag = "TT_ALPHA" /\ pr.entry.score <= alpha
         THEN [cut |-> TRUE, score |-> alpha, via |-> "tt_alpha"]
         ELSE IF pr.entry.flag = "TT_BETA" /\ pr.entry.score >= beta
         THEN [cut |-> TRUE, score |-> beta, via |-> "tt_beta"]
         ELSE [cut |-> FALSE, score |-> 0, via |-> "none"]
    ELSE [cut |-> FALSE, score |-> 0, via |-> "none"]

(* lines 339-351: what a transposition-table entry decides, if anything.   *)
TTCut(pr, depth, alpha, beta) ==
    IF pr.hit /\ pr.entry.depth >= depth
    THEN IF pr.entry.flag = "TT_EXACT" THEN [cut |-> TRUE, score |-> pr.entry.score, via |-> "tt_exact"]
         ELSE IF pr.entry.flag = "TT_ALPHA" /\ pr.entry.score <= alpha
         THEN [cut |-> TRUE, score |-> alpha, via |-> "tt_alpha"]
         ELSE IF pr.entry.flag = "TT_BETA" /\ pr.entry.score >= beta
         THEN [cut |-> TRUE, score |-> beta, via |-> "tt_beta"]
         ELSE [cut |-> FALSE, score |-> 0, via |-> "none"]
    ELSE [cut |-> FALSE, score |-> 0, via |-> "none"]

(* lines 324-378: from the entry to the first recursive call.              *)
NegamaxEnter(m, expired) ==
    LET f == TopOf(m)
        n1 == m.nodes_searched + 1
        m1 == [m EXCEPT !.nodes_searched = n1]
        key == hash(m.board.pos)
        pr == probe(m.tt, key)
        cut == TTCut(pr, f.depth, f.alpha, f.beta)
        f1 == [f EXCEPT !.key = key,
                        !.tt_move = IF pr.hit THEN pr.entry.best_move ELSE NO_MOVE]
        game_result == isGameOver(m.board)
    IN  IF m.stop_search THEN Return(m, f.alpha, "stop_entry")
        ELSE IF f.depth <= 0
        THEN Call(SetTop(m, [f EXCEPT !.pc = "qret"]),
                  "quiescence", 0, f.alpha, f.beta, TRUE)
        ELSE IF n1 % PollInterval = 0 /\ expired
        THEN Return([m1 EXCEPT !.stop_search = TRUE], f.alpha, "time")
        ELSE IF cut.cut THEN Return(m1, cut.score, cut.via)
        ELSE IF isHalfMoveDraw(m.board.pos) \/ isRepetition(m.board)
        THEN Return(m1, DRAW_VALUE, "draw")
        ELSE IF game_result # "NONE"
        THEN (IF game_result = "CHECKMATE"
              THEN Return(m1, -MATE_VALUE + n1, "checkmate")
              ELSE Return(m1, DRAW_VALUE, "gameover_draw"))
        ELSE IF /\ f.nullok /\ f.depth >= 3 /\ ~inCheck(m.board.pos)
                /\ hasNonPawnMaterial(m.board.pos)
        THEN Call(SetTop([m1 EXCEPT !.board = makeNullMove(@)],
                         [f1 EXCEPT !.pc = "null"]),
                  "negamax", f.depth - 1 - 2, -f.beta, -f.beta + 1, FALSE)
        ELSE NegamaxMoves(SetTop(m1, f1))

(* line 327: quiescence has returned.                                      *)
NegamaxAfterQuiescence(m) == Return(m, m.ret, "quiescence")

(* The null-move cutoff of line 376 ahead of the unmakeNullMove of line    *)
(* 374: the faulty variant that NullMoveDiscipline rules out.              *)
NegamaxAfterNullCutFirst(m) ==
    LET f == TopOf(m)
        null_score == -m.ret
        m1 == [m EXCEPT !.board = unmakeNullMove(@)]
    IN  IF null_score >= f.beta THEN Return(m, f.beta, "null_cutoff")
        ELSE NegamaxMoves(m1)

(* lines 372-378: the null-move search has returned.                       *)
NegamaxAfterNull(m) ==
    LET f == TopOf(m)
        null_score == -m.ret
        m1 == [m EXCEPT !.board = unmakeNullMove(@)]
    IN  IF null_score >= f.beta THEN Return(m1, f.beta, "null_cutoff")
        ELSE NegamaxMoves(m1)

(* The stop check of line 413 ahead of the unmake of line 411: the faulty  *)
(* variant that MakeUnmakeBalance rules out.                               *)
NegamaxUnmakeUnlessStopped(m) ==
    IF m.stop_search THEN m ELSE [m EXCEPT !.board = unmakeMove(@)]

(* line 411: board.unmakeMove(move).                                       *)
NegamaxUnmake(m) == [m EXCEPT !.board = unmakeMove(@)]

(* The beta cutoff of lines 420-423 ahead of the stop check of line 413:   *)
(* the faulty variant that NoStoreAfterStop rules out.                     *)
NegamaxScoreStoreFirst(m, score) ==
    LET f == TopOf(m)
        m1 == [m EXCEPT !.board = unmakeMove(@)]
        better == score > f.best_score
        best_score == IF better THEN score ELSE f.best_score
        best_move == IF better THEN f.moves[f.i].id ELSE f.best_move
    IN  IF score >= f.beta
        THEN Return([m1 EXCEPT !.tt = store(@, f.key, best_move, f.depth,
                                            f.beta, "TT_BETA")],
                    f.beta, "beta")
        ELSE IF m.stop_search THEN Return(m1, f.alpha, "stop")
        ELSE NegamaxLoop(SetTop(m1,
                [f EXCEPT !.best_score = best_score, !.best_move = best_move,
                          !.alpha = IF score > f.alpha THEN score ELSE f.alpha,
                          !.flag = IF score > f.alpha THEN "TT_EXACT" ELSE f.flag,
                          !.i = f.i + 1]))

(* lines 411-429: after the move's score is known.                         *)
NegamaxScore(m, score) ==
    LET f == TopOf(m)
        m1 == NegamaxUnmake(m)
        better == score > f.best_score
        best_score == IF better THEN score ELSE f.best_score
        best_move == IF better THEN f.moves[f.i].id ELSE f.best_move
    IN  IF m.stop_search THEN Return(m1, f.alpha, "stop")
        ELSE IF score >= f.beta
        THEN Return([m1 EXCEPT !.tt = store(@, f.key, best_move, f.depth,
                                            f.beta, "TT_BETA")],
                    f.beta, "beta")
        ELSE NegamaxLoop(SetTop(m1,
                [f EXCEPT !.best_score = best_score, !.best_move = best_move,
                          !.alpha = IF score > f.alpha THEN score ELSE f.alpha,
                          !.flag = IF score > f.alpha THEN "TT_EXACT" ELSE f.flag,
                          !.i = f.i + 1]))

(* lines 402-409: the first search of a move has returned.                 *)
NegamaxAfterMove(m) ==
    LET f == TopOf(m)
        score == -m.ret
    IN  IF f.i > 1 /\ score > f.alpha /\ score < f.beta
        THEN Call(SetTop(m, [f EXCEPT !.pc = "research"]),
                  "negamax", f.depth - 1, -f.beta, -f.alpha, TRUE)
        ELSE NegamaxScore(m, score)

(* line 407: the re-search has returned.                                   *)
NegamaxAfterResearch(m) == NegamaxScore(m, -m.ret)

----------------------------------------------------------------------------
(* search(max_depth), lines 435-467, and the tail of the go command        *)

InfoLine(depth, score, nodes, pv) ==
    [line |-> "info", depth |-> depth, score |-> score, nodes |-> nodes, move |-> pv]

BestMoveLine(move) ==
    [line |-> "bestmove", depth |-> 0, score |-> 0, nodes |-> 0, move |-> move]

ErrLine(text) ==
    [line |-> text, depth |-> 0, score |-> 0, nodes |-> 0, move |-> NO_MOVE]

Emit(m, l) == [m EXCEPT !.out = Append(@, l)]

(* search without the reset of nodes_searched of line 437: the faulty      *)
(* variant that Determinism rules out.                                     *)
SearchStartKeepNodes(m, max_depth) ==
    [m EXCEPT !.stop_search = FALSE,
              !.stack = Append(@, [NewFrame("search", 1, -INF, INF, TRUE, m.board)
                                      EXCEPT !.pc = "loop", !.max_depth = max_depth])]

(* lines 436-440: the locals of search, ahead of its loop.                 *)
SearchStart(m, max_depth) ==
    [m EXCEPT !.stop_search = FALSE, !.nodes_searched = 0,
              !.stack = Append(@, [NewFrame("search", 1, -INF, INF, TRUE, m.board)
                                      EXCEPT !.pc = "loop", !.max_depth = max_depth])]

(* search without its fallback to the first legal move: the faulty variant *)
(* that SearchReturnsLegalMove rules out.                                  *)
SearchResultNoFallback(b, best_move) == best_move

(* lines 462-466: the move search returns.                                 *)
SearchResult(b, best_move) ==
    IF best_move = NO_MOVE \/ ~is_move_legal(b, best_move)
    THEN get_first_legal_move(b)
    ELSE best_move

(* The tail of go without its lines to stderr: the faulty variant that     *)
(* NoLegalMoveAnswer rules out.                                            *)
GoTailNoDiagnostic(m) ==
    Emit(m, BestMoveLine(IF m.ret = NO_MOVE THEN get_first_legal_move(m.board)
                         ELSE m.ret))

(* lines 696-708: what the go command prints once search has returned.     *)
GoTail(m) ==
    LET m1 == IF m.ret = NO_MOVE THEN Emit(m, ErrLine("No legal move found!")) ELSE m
        best_move == IF m.ret = NO_MOVE THEN get_first_legal_move(m.board) ELSE m.ret
    IN  IF best_move # NO_MOVE
        THEN Emit(m1, BestMoveLine(best_move))
        ELSE Emit(Emit(m1, ErrLine("No legal moves available!")), BestMoveLine(NO_MOVE))

(* line 442-443: the loop's test and the call of negamax; lines 462-466.   *)
SearchLoop(m) ==
    LET f == TopOf(m)
    IN  IF f.depth <= f.max_depth /\ ~m.stop_search
        THEN Call(SetTop(m, [f EXCEPT !.pc = "iter"]),
                  "negamax", f.depth, -INF, INF, TRUE)
        ELSE GoTail(Return(m, SearchResult(m.board, f.best_move), "search"))

(* The loop body without the test of line 445: an info line for every      *)
(* iteration, stopped or not.  The faulty variant that GoThenBestMove      *)
(* rules out.                                                              *)
SearchAfterIterationAlwaysInfo(m) ==
    LET f == TopOf(m)
    IN  Emit(SetTop(m, [f EXCEPT !.pc = "loop", !.depth = f.depth + 1]),
             InfoLine(f.depth, m.ret, m.nodes_searched, f.best_move))

(* lines 443-460: negamax has returned to the loop.                        *)
SearchAfterIteration(m) ==
    LET f == TopOf(m)
        score == m.ret
        pr == probe(m.tt, hash(m.board.pos))
        best_move == IF pr.hit /\ pr.entry.best_move # NO_MOVE
                     THEN pr.entry.best_move ELSE f.best_move
        next == [f EXCEPT !.pc = "loop", !.depth = f.depth + 1]
    IN  IF ~m.stop_search
        THEN Emit(SetTop(m, [next EXCEPT !.best_move = best_move]),
                  InfoLine(f.depth, score, m.nodes_searched, best_move))
        ELSE SetTop(m, next)

----------------------------------------------------------------------------
(* UCIInterface::run, lines 623-720: one command line at a time.           *)

STARTPOS == SW

Line(cmd, root, moves, params) ==
    [cmd |-> cmd, root |-> root, moves |-> moves, params |-> params]

Param(name, val) == [name |-> name, val |-> val]

(* ChessEngine::make_move, lines 112-138: a move that is not legal is      *)
(* reported and the board is left as it is.                                *)
make_move(b, move_id) ==
    IF move_id # NO_MOVE /\ is_move_legal(b, move_id)
    THEN LET i == CHOOSE i \in 1..Len(legalmoves(b.pos)) : legalmoves(b.pos)[i].id = move_id
         IN  makeMove(b, legalmoves(b.pos)[i])
    ELSE b

(* The move strings of a position line are move ids; two stand for strings *)
(* that are no move: NO_MOVE for one uciToMove answers with NO_MOVE, and   *)
(* BadMove for one it throws on.                                           *)
BadMove == -1

(* lines 112-138: what make_move writes to stderr, if anything.            *)
MoveDiagnostic(b, move_id) ==
    IF move_id = BadMove THEN << [ErrLine("Error making move") EXCEPT !.move = move_id] >>
    ELSE IF move_id = NO_MOVE
    THEN << [ErrLine("Invalid move format") EXCEPT !.move = move_id] >>
    ELSE IF ~is_move_legal(b, move_id)
    THEN << [ErrLine("Illegal move attempted") EXCEPT !.move = move_id] >>
    ELSE << >>

(* The moves loop cut short at the first move that is not made: the faulty *)
(* variant that IllegalMoveSkipped rules out.                              *)
RECURSIVE ApplyMovesUntilIllegal(_, _)
ApplyMovesUntilIllegal(b, moves) ==
    IF moves = << >> \/ MoveDiagnostic(b, Head(moves)) # << >> THEN b
    ELSE ApplyMovesUntilIllegal(make_move(b, Head(moves)), Tail(moves))

RECURSIVE ApplyMoves(_, _)
ApplyMoves(b, moves) ==
    IF moves = << >> THEN b
    ELSE ApplyMoves(make_move(b, Head(moves)), Tail(moves))

(* lines 651-656: the stderr lines of the moves loop, in order.            *)
RECURSIVE MovesDiagnostics(_, _)
MovesDiagnostics(b, moves) ==
    IF moves = << >> THEN << >>
    ELSE MoveDiagnostic(b, Head(moves))
         \o MovesDiagnostics(make_move(b, Head(moves)), Tail(moves))

(* lines 677-694: the parameters of go, read left to right.                *)
RECURSIVE GoParams(_, _)
GoParams(params, acc) ==
    IF params = << >> THEN acc
    ELSE LET p == Head(params)
         IN  GoParams(Tail(params),
                 IF p.name = "depth" THEN [acc EXCEPT !.depth = p.val]
                 ELSE IF p.name = "movetime" THEN [acc EXCEPT !.time_limit = p.val]
                 ELSE IF p.name \in {"wtime", "btime"}
                 THEN [acc EXCEPT !.time_limit = p.val \div 20]
                 ELSE acc)

Idle == stack = << >>

Reading(cmd) == Idle /\ stdin # << >> /\ Head(stdin).cmd = cmd

Consumed == stdin' = Tail(stdin) /\ UNCHANGED sess

DoUciNewGame ==
    /\ Reading("ucinewgame")
    /\ Becomes([Cur EXCEPT !.board = NewBoard(STARTPOS), !.tt = clear(@)])
    /\ Consumed

DoPosition ==
    /\ Reading("position")
    /\ Becomes([Cur EXCEPT !.board =
                    ApplyMoves(NewBoard(Head(stdin).root), Head(stdin).moves),
                           !.out = @ \o MovesDiagnostics(NewBoard(Head(stdin).root),
                                                         Head(stdin).moves)])
    /\ Consumed

DoGo ==
    /\ Reading("go")
    /\ LET go == GoParams(Head(stdin).params,
                          [depth |-> 10, time_limit |-> time_limit])
       IN  Becomes(SearchStart([Cur EXCEPT !.time_limit = go.time_limit], go.depth))
    /\ Consumed

DoStop ==
    /\ Reading("stop")
    /\ Becomes([Cur EXCEPT !.stop_search = TRUE])
    /\ Consumed

----------------------------------------------------------------------------
(* The steps of a running search.                                          *)

At(fn, pc) == stack # << >> /\ TopOf(Cur).fn = fn /\ TopOf(Cur).pc = pc

(* The clock as the poll of lines 291-293 and 331-333 may read it: the     *)
(* time since search_start, in ms.                                         *)
ClockReadings == {0, 6000}

Expiry ==
    IF (nodes_searched + 1) % PollInterval = 0
    THEN {now > time_limit : now \in ClockReadings}
    ELSE {FALSE}

Running == UNCHANGED <<stdin, sess>>

StepSearchLoop == At("search", "loop") /\ Becomes(SearchLoop(Cur)) /\ Running

StepSearchAfterIteration ==
    At("search", "iter") /\ Becomes(SearchAfterIteration(Cur)) /\ Running

StepNegamaxEnter ==
    /\ At("negamax", "enter")
    /\ \E expired \in Expiry : Becomes(NegamaxEnter(Cur, expired))
    /\ Running

StepNegamaxAfterQuiescence ==
    At("negamax", "qret") /\ Becomes(NegamaxAfterQuiescence(Cur)) /\ Running

StepNegamaxAfterNull ==
    At("negamax", "null") /\ Becomes(NegamaxAfterNull(Cur)) /\ Running

StepNegamaxAfterMove ==
    At("negamax", "move") /\ Becomes(NegamaxAfterMove(Cur)) /\ Running

StepNegamaxAfterResearch ==
    At("negamax", "research") /\ Becomes(NegamaxAfterResearch(Cur)) /\ Running

StepQuiescenceEnter ==
    /\ At("quiescence", "enter")
    /\ \E expired \in Expiry : Becomes(QuiescenceEnter(Cur, expired))
    /\ Running

StepQuiescenceAfterMove ==
    At("quiescence", "move") /\ Becomes(QuiescenceAfterMove(Cur)) /\ Running

----------------------------------------------------------------------------
(* The controller: it writes a line when the engine has read the last one  *)
(* and is not searching. sess is what it knows of the session: the go      *)
(* lines written so far, those written since the table was last cleared,   *)
(* whether the line on stdin was written while a search was running, and   *)
(* for every go line the board it was written for, its depth and whether   *)
(* the table was clear.                                                    *)

Roots == {SW, K0, M0, NR, N0, Y0, H0, H1, Q0, E0, F0, STL}

GoDepths == {2, MaxDepth}

Lines ==
    {Line("ucinewgame", 0, << >>, << >>), Line("stop", 0, << >>, << >>)}
    \cup {Line("position", r, << >>, << >>) : r \in Roots}
    \cup {Line("go", 0, << >>, << Param("depth", d) >>) : d \in GoDepths}

GoRun(l) ==
    [cmd |-> l.cmd, board |-> board,
     depth |-> GoParams(l.params, [depth |-> 10, time_limit |-> time_limit]).depth,
     fresh |-> sess.searches = 0]

(* go counts, and so does goplain, the go of the reference search (plain   *)
(* alpha-beta, below).                                                     *)
Written(l) ==
    LET is_go == l.cmd \in {"go", "goplain"}
    IN  /\ stdin' = << l >>
        /\ sess' = [gos |-> sess.gos + (IF is_go THEN 1 ELSE 0),
                     searches |-> IF is_go THEN sess.searches + 1
                                  ELSE IF l.cmd = "ucinewgame" THEN 0
                                  ELSE sess.searches,
                     during |-> FALSE,
                     runs |-> IF is_go THEN Append(sess.runs, GoRun(l))
                              ELSE sess.runs]

Send ==
    /\ Idle /\ stdin = << >> /\ sess.gos < MaxGo
    /\ \E l \in Lines : Written(l)
    /\ UNCHANGED <<board, tt, stop_search, nodes_searched, time_limit, stack,
                   ret, done, out>>

----------------------------------------------------------------------------

Init ==
    /\ board = NewBoard(STARTPOS)
    /\ tt = EmptyTable
    /\ stop_search = FALSE
    /\ nodes_searched = 0
    /\ time_limit = 5000
    /\ stack = << >>
    /\ ret = 0
    /\ done = NoCall
    /\ stdin = << >>
    /\ out = << >>
    /\ sess = [gos |-> 0, searches |-> 0, during |-> FALSE, runs |-> << >>]

Next ==
    \/ Send
    \/ DoUciNewGame
    \/ DoPosition
    \/ DoGo
    \/ DoStop
    \/ StepSearchLoop
    \/ StepSearchAfterIteration
    \/ StepNegamaxEnter
    \/ StepNegamaxAfterQuiescence
    \/ StepNegamaxAfterNull
    \/ StepNegamaxAfterMove
    \/ StepNegamaxAfterResearch
    \/ StepQuiescenceEnter
    \/ StepQuiescenceAfterMove

Spec == Init /\ [][Next]_vars

(* The engine's own steps.  The process runs on: a line on stdin is read   *)
(* when the loop is at getline, and a search that has begun takes its next *)
(* step.                                                                   *)
Engine ==
    \/ DoUciNewGame
    \/ DoPosition
    \/ DoGo
    \/ DoStop
    \/ StepSearchLoop
    \/ StepSearchAfterIteration
    \/ StepNegamaxEnter
    \/ StepNegamaxAfterQuiescence
    \/ StepNegamaxAfterNull
    \/ StepNegamaxAfterMove
    \/ StepNegamaxAfterResearch
    \/ StepQuiescenceEnter
    \/ StepQuiescenceAfterMove

(* The controller may also write stop while a search is running.           *)
SendDuringSearch ==
    /\ ~Idle /\ stdin = << >>
    /\ stdin' = << Line("stop", 0, << >>, << >>) >>
    /\ sess' = [sess EXCEPT !.during = TRUE]
    /\ UNCHANGED <<board, tt, stop_search, nodes_searched, time_limit, stack,
                   ret, done, out>>

NextUCI == Next \/ SendDuringSearch

SpecUCI == Init /\ [][NextUCI]_vars

----------------------------------------------------------------------------
(* The reference of the PVS claim: the same engine with a plain fail-hard  *)
(* alpha-beta loop, every move searched once with the window (-beta,       *)
(* -alpha).  It is the machine above but for the step after a move: the    *)
(* score is taken as it is (no re-search), and the call of the next move   *)
(* gets the full window in place of the null window of line 403.           *)

PlainRun == sess.runs # << >> /\ sess.runs[Len(sess.runs)].cmd = "goplain"

FullWindow(m) ==
    IF Len(m.stack) < 2 THEN m
    ELSE LET f == TopOf(m)
             caller == m.stack[Len(m.stack) - 1]
         IN  IF /\ f.fn = "negamax" /\ f.pc = "enter"
                /\ caller.fn = "negamax" /\ caller.pc = "move"
             THEN SetTop(m, [f EXCEPT !.alpha = -caller.beta, !.a0 = -caller.beta])
             ELSE m

PlainAfterMove(m) == FullWindow(NegamaxScore(m, -m.ret))

StepPlainAfterMove ==
    At("negamax", "move") /\ Becomes(PlainAfterMove(Cur)) /\ Running

DoGoPlain ==
    /\ Reading("goplain")
    /\ LET go == GoParams(Head(stdin).params,
                          [depth |-> 10, time_limit |-> time_limit])
       IN  Becomes(SearchStart([Cur EXCEPT !.time_limit = go.time_limit], go.depth))
    /\ Consumed

(* The experiment: a search, ucinewgame, the same position, and the        *)
(* reference search to the same depth.                                     *)
PVSLines ==
    IF sess.gos = 0
    THEN {Line("position", r, << >>, << >>) : r \in Roots}
         \cup {Line("go", 0, << >>, << Param("depth", d) >>) : d \in 1..MaxDepth}
    ELSE IF sess.searches = 1 THEN {Line("ucinewgame", 0, << >>, << >>)}
    ELSE IF board # sess.runs[1].board
    THEN {Line("position", sess.runs[1].board.pos, << >>, << >>)}
    ELSE {Line("goplain", 0, << >>, << Param("depth", sess.runs[1].depth) >>)}

SendPVS ==
    /\ Idle /\ stdin = << >> /\ sess.gos < 2
    /\ \E l \in PVSLines : Written(l)
    /\ UNCHANGED <<board, tt, stop_search, nodes_searched, time_limit, stack,
                   ret, done, out>>

NextPVS ==
    \/ SendPVS
    \/ DoUciNewGame
    \/ DoPosition
    \/ DoGo
    \/ DoGoPlain
    \/ StepSearchLoop
    \/ StepSearchAfterIteration
    \/ StepNegamaxEnter
    \/ StepNegamaxAfterQuiescence
    \/ StepNegamaxAfterNull
    \/ StepQuiescenceEnter
    \/ StepQuiescenceAfterMove
    \/ (~PlainRun /\ StepNegamaxAfterMove)
    \/ (~PlainRun /\ StepNegamaxAfterResearch)
    \/ (PlainRun /\ StepPlainAfterMove)

SpecPVS == Init /\ [][NextPVS]_vars

----------------------------------------------------------------------------
(* The controller of the go parameters: go lines with and without depth,   *)
(* movetime, wtime and btime, in either order.                             *)

GoParamLists ==
    {<< >>,
     << Param("depth", 3) >>,
     << Param("depth", 3), Param("movetime", 7000) >>,
     << Param("movetime", 7000), Param("wtime", 60000), Param("depth", 3) >>,
     << Param("wtime", 60000), Param("depth", 3), Param("movetime", 7000) >>,
     << Param("depth", 3), Param("btime", 60000) >>}

TimedLines ==
    {Line("ucinewgame", 0, << >>, << >>), Line("stop", 0, << >>, << >>)}
    \cup {Line("position", r, << >>, << >>) : r \in {M0, N0, Q0, STL}}
    \cup {Line("go", 0, << >>, ps) : ps \in GoParamLists}

SendTimed ==
    /\ Idle /\ stdin = << >> /\ sess.gos < MaxGo
    /\ \E l \in TimedLines : Written(l)
    /\ UNCHANGED <<board, tt, stop_search, nodes_searched, time_limit, stack,
                   ret, done, out>>

NextGo ==
    \/ SendTimed
    \/ DoUciNewGame
    \/ DoPosition
    \/ DoGo
    \/ DoStop
    \/ StepSearchLoop
    \/ StepSearchAfterIteration
    \/ StepNegamaxEnter
    \/ StepNegamaxAfterQuiescence
    \/ StepNegamaxAfterNull
    \/ StepNegamaxAfterMove
    \/ StepNegamaxAfterResearch
    \/ StepQuiescenceEnter
    \/ StepQuiescenceAfterMove

SpecGo == Init /\ [][NextGo]_vars

----------------------------------------------------------------------------
(* The engine as a process that keeps running.  While a search is on, the  *)
(* thread executes it: the call stack changes again and again.  While the  *)
(* loop waits at getline (line 626) and a line is there, the line is read. *)
(* The controller is under no obligation to write anything.                *)

SearchRuns == ~Idle /\ (stack' = << >> \/ stack' # stack)

LineRead == Idle /\ stdin # << >> /\ stdin' = Tail(stdin)

LiveLines ==
    {Line("ucinewgame", 0, << >>, << >>), Line("stop", 0, << >>, << >>)}
    \cup {Line("position", r, << >>, << >>) : r \in {E0, M0, N0, STL, MM}}
    \cup {Line("go", 0, << >>, << Param("depth", 3) >>)}

SendLive ==
    /\ Idle /\ stdin = << >> /\ sess.gos < MaxGo
    /\ \E l \in LiveLines : Written(l)
    /\ UNCHANGED <<board, tt, stop_search, nodes_searched, time_limit, stack,
                   ret, done, out>>

NextLive == SendLive \/ Engine

SpecLive ==
    Init /\ [][NextLive]_vars /\ WF_stack(SearchRuns) /\ WF_stdin(LineRead)

----------------------------------------------------------------------------
(* The controller of the position command: position lines with move lists, *)
(* some with a move that is illegal where it stands, or no move at all.    *)
(* It stops writing once MaxDiag lines are on stderr.                      *)

MaxDiag == 3

PositionLines ==
    {Line("ucinewgame", 0, << >>, << >>)}
    \cup {Line("position", r, ms, << >>) :
             r \in {SW, K0},
             ms \in {<< >>, << 2, 3, 5 >>, << 3, 2, 3 >>, << 2, NO_MOVE, 3 >>,
                     << 2, BadMove, 3 >>, << 2, 3, 4, 9 >>, << 1, 1, 1, 1 >>}}

SendPosition ==
    /\ Idle /\ stdin = << >> /\ Len(out) < MaxDiag
    /\ \E l \in PositionLines : Written(l)
    /\ UNCHANGED <<board, tt, stop_search, nodes_searched, time_limit, stack,
                   ret, done, out>>

NextPosition == SendPosition \/ DoUciNewGame \/ DoPosition

SpecPosition == Init /\ [][NextPosition]_vars

----------------------------------------------------------------------------
(* The controller of the searches that run out of time: deep searches of   *)
(* roots with more than a thousand nodes below them.                       *)

StopLines ==
    {Line("ucinewgame", 0, << >>, << >>), Line("stop", 0, << >>, << >>)}
    \cup {Line("position", r, << >>, << >>) : r \in {RX, E0, NR}}
    \cup {Line("go", 0, << >>, << Param("depth", MaxDepth) >>)}

SendStop ==
    /\ Idle /\ stdin = << >> /\ sess.gos < MaxGo
    /\ \E l \in StopLines : Written(l)
    /\ UNCHANGED <<board, tt, stop_search, nodes_searched, time_limit, stack,
                   ret, done, out>>

NextStop == SendStop \/ Engine

SpecStop == Init /\ [][NextStop]_vars

----------------------------------------------------------------------------
(* TranspositionTable on its own: store, probe and clear, called with      *)
(* arguments from small sets on a table that starts empty.  done records   *)
(* the call: the key in pos, the other arguments or the entry probe        *)
(* returned in best_move, depth, score and via (the flag).                 *)

MaxKey == 7

TTKeys == 0..MaxKey

StoreArgs ==
    {[move |-> NO_MOVE, depth |-> 1, score |-> -10, flag |-> "TT_ALPHA"],
     [move |-> 1, depth |-> 2, score |-> 10, flag |-> "TT_EXACT"],
     [move |-> 2, depth |-> 2, score |-> 25, flag |-> "TT_BETA"],
     [move |-> 3, depth |-> 3, score |-> -60, flag |-> "TT_EXACT"]}

TTCall(fn, key, move, depth, score, flag) ==
    [NoCall EXCEPT !.fn = fn, !.pos = key, !.best_move = move,
                   !.depth = depth, !.score = score, !.via = flag]

TTOnly ==
    UNCHANGED <<board, stop_search, nodes_searched, time_limit, stack, ret,
                stdin, out, sess>>

TTStoreCall ==
    /\ \E key \in TTKeys, a \in StoreArgs :
          /\ tt' = store(tt, key, a.move, a.depth, a.score, a.flag)
          /\ done' = TTCall("store", key, a.move, a.depth, a.score, a.flag)
    /\ TTOnly

TTProbeCall ==
    /\ \E key \in TTKeys :
          LET pr == probe(tt, key)
          IN  done' = IF pr.hit
                      THEN TTCall("probe_hit", key, pr.entry.best_move,
                                  pr.entry.depth, pr.entry.score, pr.entry.flag)
                      ELSE TTCall("probe_nullptr", key, NO_MOVE, 0, 0, "none")
    /\ tt' = tt
    /\ TTOnly

TTClearCall ==
    /\ tt' = clear(tt)
    /\ done' = TTCall("clear", 0, NO_MOVE, 0, 0, "none")
    /\ TTOnly

NextTT == TTStoreCall \/ TTProbeCall \/ TTClearCall

SpecTT == Init /\ [][NextTT]_vars

----------------------------------------------------------------------------
(* order_moves on its own: called on two legal moves of every kind (quiet, *)
(* a capture of any piece but the king by any piece, a promotion to any    *)
(* piece; each giving check or not), with a tt_move that is one of them or *)
(* none.  done holds the call: the list, tt_move and the list after.       *)

OrderKinds(id) ==
    {Quiet(id, to) : to \in {SW, MM}}
    \cup {Capture(id, to, vic, att) :
            to \in {SW, MM}, vic \in {"P", "N", "B", "R", "Q"},
            att \in {"P", "N", "B", "R", "Q", "K"}}
    \cup {Promotion(id, to, pt) : to \in {SW, MM}, pt \in {"N", "B", "R", "Q"}}

InitOrder ==
    /\ board = NewBoard(STARTPOS)
    /\ tt = EmptyTable
    /\ stop_search = FALSE
    /\ nodes_searched = 0
    /\ time_limit = 5000
    /\ stack = << >>
    /\ ret = 0
    /\ \E a \in OrderKinds(1), b \in OrderKinds(2), tt_move \in {NO_MOVE, 1, 2} :
          done = [fn |-> "call", moves |-> << a, b >>, tt_move |-> tt_move,
                  ordered |-> << >>]
    /\ stdin = << >>
    /\ out = << >>
    /\ sess = [gos |-> 0, searches |-> 0, during |-> FALSE, runs |-> << >>]

OrderCall ==
    /\ done.fn = "call"
    /\ done' = [done EXCEPT !.fn = "order_moves",
                            !.ordered = order_moves(done.moves, done.tt_move)]
    /\ UNCHANGED <<board, tt, stop_search, nodes_searched, time_limit, stack,
                   ret, stdin, out, sess>>

SpecOrder == InitOrder /\ [][OrderCall]_vars

----------------------------------------------------------------------------
(* Week3/check_mate_in_n.cpp: the mate solver.  A game is a record: the    *)
(* legal moves of each position (a move is its identity and the position   *)
(* it leads to), the positions whose side to move is checkmated, the ply   *)
(* of each position and whether White moves first.  A position's number    *)
(* stands for its FEN.  A ChessHistory is a record of board, history and   *)
(* max_depth.                                                              *)

INT_MIN == -2147483647 - 1
INT_MAX == 2147483647

MaxSolveDepth == 4

(* The games: from the root 0 the moves 1 and 2 lead to 1 and 2; from 1    *)
(* the moves 3 and 4 lead to 3 and 4; from 2 the move 5 leads to 4 as      *)
(* well; 3 leads on to 7 and 4 to 5 and 6; any of 3, 5, 6 and 7 may be     *)
(* checkmate, and the others of 5, 6, 7 lead to the stalemate 8.           *)
MateGames ==
    {[moves |-> [p \in 0..8 |->
                   CASE p = 0 -> << [id |-> 1, to |-> 1], [id |-> 2, to |-> 2] >>
                     [] p = 1 -> << [id |-> 3, to |-> 3], [id |-> 4, to |-> 4] >>
                     [] p = 2 -> << [id |-> 5, to |-> 4] >>
                     [] p = 3 /\ p \notin mated -> << [id |-> 6, to |-> 7] >>
                     [] p = 4 -> << [id |-> 7, to |-> 5], [id |-> 8, to |-> 6] >>
                     [] p \in {5, 6, 7} \ mated -> << [id |-> 9, to |-> 8] >>
                     [] OTHER -> << >>],
      mated |-> mated,
      ply |-> [p \in 0..8 |->
                 CASE p = 0 -> 0 [] p \in {1, 2} -> 1 [] p \in {3, 4} -> 2
                   [] p \in {5, 6, 7} -> 3 [] OTHER -> 4],
      white |-> white] : mated \in SUBSET {3, 5, 6, 7}, white \in BOOLEAN}

get_board_str(h) == h.board

(* Board::isGameOver is checkmate or stalemate here: no legal move.        *)
is_terminal(g, h) ==
    g.moves[h.board] = << >> \/ Len(h.history) >= h.max_depth

get_value(g, h) ==
    IF h.board \in g.mated
    THEN (IF g.white = (g.ply[h.board] % 2 = 0) THEN -1 ELSE 1)
    ELSE 0

get_valid_moves(g, h) == g.moves[h.board]

history_make_move(h, move) ==
    [h EXCEPT !.board = move.to, !.history = Append(@, move.id)]

RECURSIVE alpha_beta_pruning(_, _, _, _, _, _, _)
RECURSIVE AlphaBetaMoves(_, _, _, _, _, _, _, _, _, _)

(* lines 57-71 and 94-95, 120-121: the cache hit, the leaf, and the store  *)
(* after the loop.  The cache is threaded through the calls.               *)
alpha_beta_pruning(g, h, alpha, beta, max_player, depth, board_positions_val_dict) ==
    LET key == get_board_str(h)
    IN  IF key \in DOMAIN board_positions_val_dict
        THEN [value |-> board_positions_val_dict[key], moves |-> << >>,
              dict |-> board_positions_val_dict]
        ELSE IF is_terminal(g, h) \/ depth = 0
        THEN [value |-> get_value(g, h), moves |-> << >>,
              dict |-> (key :> get_value(g, h)) @@ board_positions_val_dict]
        ELSE LET r == AlphaBetaMoves(g, h, 1, alpha, beta, max_player, depth,
                                     board_positions_val_dict,
                                     IF max_player THEN INT_MIN ELSE INT_MAX,
                                     << >>)
             IN  [r EXCEPT !.dict = (key :> r.value) @@ r.dict]

(* lines 73-92 and 96-118: the loop over the valid moves, from the i-th.   *)
AlphaBetaMoves(g, h, i, alpha, beta, max_player, depth, dict, best, line) ==
    IF i > Len(get_valid_moves(g, h))
    THEN [value |-> best, moves |-> line, dict |-> dict]
    ELSE LET move == get_valid_moves(g, h)[i]
             r == alpha_beta_pruning(g, history_make_move(h, move), alpha, beta,
                                     ~max_player, depth - 1, dict)
             improved == IF max_player THEN r.value > best
                                       ELSE r.value < best
             bv == IF improved THEN r.value ELSE best
             bm == IF improved /\ r.value = (IF max_player THEN 1 ELSE -1)
                   THEN << move.id >> \o r.moves ELSE line
             a == IF max_player /\ bv > alpha THEN bv ELSE alpha
             b == IF ~max_player /\ bv < beta THEN bv ELSE beta
         IN  IF a >= b THEN [value |-> bv, moves |-> bm, dict |-> r.dict]
             ELSE AlphaBetaMoves(g, h, i + 1, a, b, max_player, depth, r.dict,
                                 bv, bm)

(* lines 125-128, on a cache that starts empty.                            *)
solve_mate_in_n(g, fen, depth) ==
    alpha_beta_pruning(g, [board |-> fen, history |-> << >>, max_depth |-> depth],
                       INT_MIN, INT_MAX, TRUE, depth, << >>)

(* Plain depth-limited minimax: the same leaves, no cache, no window.      *)
RECURSIVE minimax(_, _, _, _)
minimax(g, h, max_player, depth) ==
    IF is_terminal(g, h) \/ depth = 0 THEN get_value(g, h)
    ELSE LET values == {minimax(g, history_make_move(h, get_valid_moves(g, h)[i]),
                                ~max_player, depth - 1) :
                          i \in 1..Len(get_valid_moves(g, h))}
         IN  IF max_player THEN CHOOSE v \in values : \A w \in values : w <= v
             ELSE CHOOSE v \in values : \A w \in values : v <= w

(* main: the arguments, then the call.  done holds them and the result.    *)
InitMate ==
    /\ board = NewBoard(STARTPOS)
    /\ tt = EmptyTable
    /\ stop_search = FALSE
    /\ nodes_searched = 0
    /\ time_limit = 5000
    /\ stack = << >>
    /\ ret = 0
    /\ \E g \in MateGames, depth \in 0..MaxSolveDepth :
          done = [fn |-> "main", game |-> g, depth |-> depth, value |-> 0,
                  moves |-> << >>]
    /\ stdin = << >>
    /\ out = << >>
    /\ sess = [gos |-> 0, searches |-> 0, during |-> FALSE, runs |-> << >>]

SolveCall ==
    /\ done.fn = "main"
    /\ LET r == solve_mate_in_n(done.game, 0, done.depth)
       IN  done' = [done EXCEPT !.fn = "solve_mate_in_n", !.value = r.value,
                                !.moves = r.moves]
    /\ UNCHANGED <<board, tt, stop_search, nodes_searched, time_limit, stack,
                   ret, stdin, out, sess>>

SpecMate == InitMate /\ [][SolveCall]_vars

----------------------------------------------------------------------------
(* Properties                                                              *)

Abs(x) == IF x < 0 THEN -x ELSE x

Returned(fn) == done.fn = fn

Checkmated(p) == legalmoves(p) = << >> /\ inCheck(p)

SetMax(S) == CHOOSE x \in S : \A y \in S : y <= x

(* The info lines of the search that returned last: those after the        *)
(* bestmove line of the search before it.                                  *)
LastSearchStart ==
    LET ends == {i \in 1..Len(out) - 1 : out[i].line = "bestmove"}
    IN  IF ends = {} THEN 1 ELSE SetMax(ends) + 1

LastSearchInfo ==
    {out[i] : i \in {j \in LastSearchStart..Len(out) : out[j].line = "info"}}

(* A root that is neither checkmate, stalemate nor a draw by rule.         *)
NonTerminal(b) ==
    isGameOver(b) = "NONE" /\ ~isRepetition(b) /\ ~isHalfMoveDraw(b.pos)

(* search is back at the head of its loop after an iteration that was not  *)
(* stopped: iteration TopOf(Cur).depth - 1 has completed.                  *)
IterationCompleted ==
    At("search", "loop") /\ TopOf(Cur).depth > 1 /\ ~stop_search

(* What evaluate() gives on the positions that are not checkmate.          *)
NonMateEvaluations ==
    {evaluate(NewBoard(p)) : p \in {q \in Positions : ~Checkmated(q)}}

HasMateInOne(p) ==
    \E i \in 1..Len(legalmoves(p)) : Checkmated(legalmoves(p)[i].to)

MatingMoves(p) ==
    {legalmoves(p)[i].id : i \in {j \in 1..Len(legalmoves(p)) :
                                     Checkmated(legalmoves(p)[j].to)}}

(* C1. Fail-hard bounds: every call negamax(depth, alpha, beta, _) with    *)
(* alpha < beta returns a score s with alpha <= s <= beta, on every return *)
(* path and in every transposition-table state.                            *)
FailHardBounds ==
    (Returned("negamax") /\ done.alpha < done.beta)
        => (done.alpha <= done.score /\ done.score <= done.beta)

(* C2. evaluate() on a checkmated position is -MATE_VALUE for the side to  *)
(* move, whichever colour that is, and quiescence never returns from its   *)
(* stand-pat test (stand_pat >= beta) in a position whose side to move is  *)
(* checkmated.                                                             *)
EvaluateCheckmate ==
    /\ Checkmated(board.pos) => evaluate(board) = -MATE_VALUE
    /\ ~(Returned("quiescence") /\ done.via = "standpat" /\ Checkmated(done.pos))

(* C3. search never returns NO_MOVE when the root has a legal move, and    *)
(* the move it returns is legal in the root: whatever the table holds and  *)
(* wherever stop_search became set, before depth 1 completed included.     *)
SearchReturnsLegalMove ==
    (Returned("search") /\ legalmoves(done.pos) # << >>)
        => (done.score # NO_MOVE /\ done.score \in MoveIds(legalmoves(done.pos)))

(* The search was stopped inside its first iteration, adopted nothing and  *)
(* returned a legal move.                                                  *)
SearchStoppedInFirstIteration ==
    /\ Returned("search") /\ done.stopped /\ done.depth = 2
    /\ done.best_move = NO_MOVE
    /\ done.score \in MoveIds(legalmoves(done.pos))

(* C4. Anytime behaviour: when time expires during iteration d after at    *)
(* least one iteration completed, there is no info line for iteration d    *)
(* and search returns the move adopted after the last completed iteration. *)
AnytimeBehaviour ==
    (Returned("search") /\ done.stopped /\ done.depth >= 3)
        => /\ \A l \in LastSearchInfo : l.depth < done.depth - 1
           /\ done.score = done.best_move

(* C5. A stop line written while a go search is running sets stop_search   *)
(* during that search: when the search returns, the line has been read and *)
(* the search has ended stopped, short of its depth limit.                 *)
StopEndsSearch ==
    (Returned("search") /\ Idle /\ sess.during)
        => (stdin = << >> /\ done.stopped)

(* C6. TT consistency: when search has completed iteration D without       *)
(* stop_search, probing the table with the root's hash gives an entry of   *)
(* depth >= D whose best_move is legal in the root, whatever earlier       *)
(* searches left in the table, for every non-terminal root.                *)
TTConsistency ==
    (IterationCompleted /\ NonTerminal(board))
        => LET pr == probe(tt, hash(board.pos))
           IN  /\ pr.hit
               /\ pr.entry.depth >= TopOf(Cur).depth - 1
               /\ is_move_legal(board, pr.entry.best_move)

(* C7. Make/unmake balance: when a negamax or quiescence call returns, by  *)
(* any return statement, the board (position, hash and move history) is    *)
(* what it was when the call began.                                        *)
MakeUnmakeBalance ==
    (Returned("negamax") \/ Returned("quiescence")) => done.balanced

(* A negamax call with a move in flight returned because stop_search was   *)
(* set, the board restored.                                                *)
StoppedWithMoveInFlight ==
    /\ Returned("negamax") /\ done.via = "stop" /\ done.stopped
    /\ done.depth >= 1 /\ done.balanced

(* C8. Score range: every score negamax or quiescence returns, the table   *)
(* stores or an info line prints is smaller than INF in magnitude, and a   *)
(* checkmate score -MATE_VALUE + nodes_searched is below every evaluation  *)
(* of a position that is not checkmate.                                    *)
ScoreRange ==
    /\ (Returned("negamax") \/ Returned("quiescence")) => Abs(done.score) < INF
    /\ \A i \in DOMAIN tt : Abs(tt[i].score) < INF
    /\ \A i \in 1..Len(out) : out[i].line = "info" => Abs(out[i].score) < INF
    /\ (Returned("negamax") /\ done.via \in {"checkmate", "nomoves_mate"})
           => \A e \in NonMateEvaluations : done.score < e

(* C9. Mate preference: at the root K0 move 1 mates at once and move 2     *)
(* forces mate in three plies; an iteration deep enough to find both       *)
(* (depth >= 3) selects move 1, the shorter mate.                          *)
MatePreference ==
    (IterationCompleted /\ board.pos = K0 /\ TopOf(Cur).depth - 1 >= 3)
        => TopOf(Cur).best_move = 1

(* C10. Mate in one: a search from a cleared table that completes depth    *)
(* >= 2 on a root with a move giving checkmate returns such a move, and    *)
(* its last info line reports MATE_VALUE minus a node count of the search. *)
MateInOne ==
    (/\ Returned("search") /\ Idle /\ stdin = << >> /\ sess.searches = 1
     /\ HasMateInOne(done.pos) /\ ~done.stopped /\ done.depth - 1 >= 2)
        => /\ done.score \in MatingMoves(done.pos)
           /\ \A l \in LastSearchInfo :
                 l.depth = done.depth - 1
                    => (MATE_VALUE - l.nodes <= l.score /\ l.score < MATE_VALUE)

(* A position the draw test of line 357 answers for.                        *)
Drawn(b) == isHalfMoveDraw(b.pos) \/ isRepetition(b)

(* C11. Draw shortcut: a call of negamax with depth >= 1 on a position     *)
(* that reports a 50-move draw or a repetition returns DRAW_VALUE at once, *)
(* no move made and no call begun, whatever the table holds (a search that *)
(* is stopped or runs out of time at this call set aside).                 *)
DrawShortcut ==
    [][(/\ At("negamax", "enter") /\ TopOf(Cur).depth >= 1
        /\ Drawn(board) /\ ~stop_search /\ ~stop_search')
          => (/\ Len(stack') = Len(stack) - 1
              /\ ret' = DRAW_VALUE
              /\ board' = board)]_vars

(* C12. Depth-preferred replacement: a slot that holds an entry of depth d *)
(* changes, by any store of any search short of a clear, only to an entry  *)
(* of depth >= d: a shallower result never overwrites a deeper one.        *)
DepthPreferred ==
    [][~Reading("ucinewgame")
          => \A i \in DOMAIN tt :
                (tt[i].key # 0 /\ tt'[i] # tt[i])
                    => tt'[i].depth >= tt[i].depth]_vars

(* C13. Store policy: store(key, move, depth, score, flag) writes exactly  *)
(* its five arguments to the slot at index key & (length - 1) if and only  *)
(* if that slot's key is 0, or its depth <= the new depth, or its key is   *)
(* the new key; otherwise no slot changes.                                 *)
StorePolicy ==
    [][done'.fn = "store"
          => LET index == done'.pos % TTSize
                 entry == tt[index]
                 given == [key |-> done'.pos, best_move |-> done'.best_move,
                           depth |-> done'.depth, score |-> done'.score,
                           flag |-> done'.via]
             IN  IF entry.key = 0 \/ entry.depth <= done'.depth
                                  \/ entry.key = done'.pos
                 THEN tt' = [tt EXCEPT ![index] = given]
                 ELSE tt' = tt]_vars

(* A store was refused: the slot still holds another key's deeper entry.   *)
StoreRefused ==
    /\ done.fn = "store"
    /\ tt[done.pos % TTSize].key \notin {0, done.pos}
    /\ tt[done.pos % TTSize].depth > done.depth

(* C14. After ucinewgame the position is the start position and probe     *)
(* returns nullptr for every key: nothing of an earlier game is a hit, and *)
(* an unused slot is never reported as a hit.                              *)
NewGameForgets ==
    [][Reading("ucinewgame")
          => /\ board' = NewBoard(STARTPOS)
             /\ \A key \in TTKeys : ~probe(tt', key).hit]_vars

(* The lines of the k-th search of the session: those after the bestmove   *)
(* line of the search before it, up to its own bestmove line.              *)
BestMoveLines == {i \in 1..Len(out) : out[i].line = "bestmove"}

EndOf(k) == CHOOSE i \in BestMoveLines : Cardinality({j \in BestMoveLines : j <= i}) = k

SearchOutput(k) == SubSeq(out, IF k = 1 THEN 1 ELSE EndOf(k - 1) + 1, EndOf(k))

InfoLines(lines) == {i \in 1..Len(lines) : lines[i].line = "info"}

(* The k-th search ran to its depth limit: time never expired.             *)
RanToDepth(k) == Cardinality(InfoLines(SearchOutput(k))) = sess.runs[k].depth

(* C15. Determinism: two searches from the same board, each begun with a   *)
(* clear table and the same max depth and neither cut short by the clock,  *)
(* print the same bestmove and the same info lines: the same score and     *)
(* node count at every depth.                                              *)
Determinism ==
    \A i, j \in 1..Cardinality(BestMoveLines) :
        (/\ sess.runs[i].fresh /\ sess.runs[j].fresh
         /\ sess.runs[i].board = sess.runs[j].board
         /\ sess.runs[i].depth = sess.runs[j].depth
         /\ RanToDepth(i) /\ RanToDepth(j))
            => SearchOutput(i) = SearchOutput(j)

(* Two searches of depth >= 3 from the same board and a clear table have   *)
(* both run to their depth limit.                                          *)
SameSearchTwice ==
    /\ Cardinality(BestMoveLines) = 2
    /\ sess.runs[1] = sess.runs[2] /\ sess.runs[1].fresh
    /\ sess.runs[1].depth >= 3 /\ legalmoves(sess.runs[1].board.pos) # << >>
    /\ RanToDepth(1) /\ RanToDepth(2)

(* The scores of the info lines, depth by depth.                           *)
RootScores(lines) == {<<lines[i].depth, lines[i].score>> : i \in InfoLines(lines)}

(* C16. PVS equivalence: from a clear table, with the same move ordering   *)
(* and no time expiry, the root score of negamax at every depth equals the *)
(* root score of the plain fail-hard alpha-beta that searches every move   *)
(* with the full window.                                                   *)
PVSEquivalence ==
    (/\ Cardinality(BestMoveLines) = 2 /\ PlainRun
     /\ sess.runs[1].board = sess.runs[2].board
     /\ RanToDepth(1) /\ RanToDepth(2))
        => RootScores(SearchOutput(1)) = RootScores(SearchOutput(2))

ParamNames(params) == {params[i].name : i \in 1..Len(params)}

(* The value the parameter carries (a parameter occurs once in a line).    *)
ParamValue(params, name) ==
    params[CHOOSE i \in 1..Len(params) : params[i].name = name].val

(* C17. A go line with no movetime, wtime or btime parameter searches      *)
(* under a time limit of 5000 ms, whatever go lines were read before it.   *)
DefaultTimeLimit ==
    [][(/\ Reading("go")
        /\ ParamNames(Head(stdin).params) \cap {"movetime", "wtime", "btime"} = {})
          => time_limit' = 5000]_vars

(* C18. A go line with movetime M searches under a time limit of exactly   *)
(* M ms, whether or not wtime or btime are also given and in whatever      *)
(* order; time / 20 applies only when no movetime is given.                *)
MovetimePrecedence ==
    [][(Reading("go") /\ "movetime" \in ParamNames(Head(stdin).params))
          => time_limit' = ParamValue(Head(stdin).params, "movetime")]_vars

(* A go line is on stdin or its search is running.                         *)
GoPending == ~Idle \/ (stdin # << >> /\ Head(stdin).cmd = "go")

(* The lines printed since the last bestmove line.                         *)
CurrentOutput ==
    SubSeq(out, IF BestMoveLines = {} THEN 1 ELSE SetMax(BestMoveLines) + 1, Len(out))

(* The info lines come first, the i-th for depth i.                        *)
InfoInOrder(lines) ==
    /\ \A i \in InfoLines(lines) : lines[i].depth = i
    /\ \A i \in 1..Len(lines) : lines[i].line = "info" \/ i > Cardinality(InfoLines(lines))

OutputInOrder ==
    /\ Cardinality(BestMoveLines) = sess.gos - (IF GoPending THEN 1 ELSE 0)
    /\ \A k \in 1..Cardinality(BestMoveLines) : InfoInOrder(SearchOutput(k))
    /\ InfoInOrder(CurrentOutput)
    /\ Returned("search")
          => Cardinality(InfoLines(SearchOutput(Cardinality(BestMoveLines))))
                = done.depth - (IF done.stopped THEN 2 ELSE 1)

(* C19. Every go line is followed by exactly one bestmove line, printed    *)
(* after all info lines of its search; the info lines are one per          *)
(* completed depth, in increasing order from depth 1, with none for an     *)
(* iteration that was stopped.                                             *)
GoThenBestMove ==
    /\ []OutputInOrder
    /\ \A n \in 1..MaxGo : (sess.gos = n) ~> (Cardinality(BestMoveLines) = n)

(* A search stopped in its third iteration or later has printed its info   *)
(* lines and its bestmove line.                                            *)
StoppedSearchAnswered ==
    /\ Returned("search") /\ done.stopped /\ done.depth >= 3
    /\ out[Len(out)].line = "bestmove"
    /\ Cardinality(InfoLines(SearchOutput(Cardinality(BestMoveLines)))) = done.depth - 2

(* The search that returned last was at a root with no legal move, and the *)
(* loop is back at getline.                                                *)
NoMoveSearchDone == Returned("search") /\ Idle /\ legalmoves(done.pos) = << >>

Diagnostics(lines) == {i \in 1..Len(lines) : lines[i].line \notin {"info", "bestmove"}}

(* C20. When the root has no legal move (checkmate or stalemate), search   *)
(* returns NO_MOVE, the go command prints a diagnostic to stderr and then  *)
(* exactly bestmove 0000, and the loop goes on reading commands.           *)
NoLegalMoveAnswer ==
    /\ [](NoMoveSearchDone
            => LET lines == SearchOutput(Cardinality(BestMoveLines))
               IN  /\ done.score = NO_MOVE
                   /\ lines[Len(lines)] = BestMoveLine(NO_MOVE)
                   /\ Diagnostics(lines) # {})
    /\ (NoMoveSearchDone /\ stdin # << >>) ~> (stdin = << >>)

(* After the search of a checkmated root was answered with bestmove 0000,  *)
(* a second go line was read and answered.                                 *)
NoMoveThenNextGo ==
    /\ Cardinality(BestMoveLines) = 2 /\ Idle
    /\ Checkmated(sess.runs[1].board.pos)
    /\ SearchOutput(1)[Len(SearchOutput(1))] = BestMoveLine(NO_MOVE)

(* The board after the moves of a list that are legal where they stand,    *)
(* the others passed over: by the move generator alone.                    *)
RECURSIVE MovesPlayed(_, _)
MovesPlayed(b, moves) ==
    IF moves = << >> THEN b
    ELSE LET legal == {i \in 1..Len(legalmoves(b.pos)) :
                          legalmoves(b.pos)[i].id = Head(moves)}
         IN  IF legal = {} THEN MovesPlayed(b, Tail(moves))
             ELSE MovesPlayed([pos |-> legalmoves(b.pos)[CHOOSE i \in legal : TRUE].to,
                               hist |-> Append(b.hist, b.pos)],
                              Tail(moves))

(* C21. A move of a position line that is illegal or no move at all leaves *)
(* the board as it is, the engine goes on (the line is consumed, the loop  *)
(* is back at getline), and the remaining moves of the list are applied    *)
(* one by one to the board that results.                                   *)
IllegalMoveSkipped ==
    [][Reading("position")
          => /\ board' = MovesPlayed(NewBoard(Head(stdin).root), Head(stdin).moves)
             /\ stack' = << >> /\ stdin' = Tail(stdin)]_vars

(* The line "position K0 moves 3 2 3" has been read: move 3 was illegal at *)
(* K0 and reported, then 2 and 3 were made.                                *)
IllegalThenLegalMoves ==
    /\ out # << >> /\ out[Len(out)] = [ErrLine("Illegal move attempted") EXCEPT !.move = 3]
    /\ board = [pos |-> K3, hist |-> << K0, K2 >>]

(* C22. Quiescence boundedness: no quiescence call on the stack has a      *)
(* depth argument above 11, and a call with depth > 10 returns evaluate()  *)
(* at once: no move made, no call begun.                                   *)
QuiescenceBounded ==
    /\ [](\A i \in 1..Len(stack) : stack[i].fn = "quiescence" => stack[i].depth <= 11)
    /\ [][(At("quiescence", "enter") /\ TopOf(Cur).depth > 10)
             => (/\ Len(stack') = Len(stack) - 1
                 /\ ret' = evaluate(board)
                 /\ board' = board)]_vars

(* A chain of captures has taken quiescence to depth 11, where it returned *)
(* by its depth test.                                                      *)
QuiescenceAtLimit ==
    Returned("quiescence") /\ done.via = "qlimit" /\ done.depth = 11

(* C23. Once stop_search is set, every pending negamax and quiescence      *)
(* frame returns its own current alpha, a frame waiting on its null-move   *)
(* search included (a negamax of depth <= 0, which hands on what           *)
(* quiescence returns, set aside).                                         *)
StopReturnsAlpha ==
    [][(/\ stop_search /\ ~Idle
        /\ TopOf(Cur).fn \in {"negamax", "quiescence"} /\ TopOf(Cur).pc # "qret"
        /\ Len(stack') < Len(stack))
          => ret' = TopOf(Cur).alpha]_vars

(* C24. Once stop_search has been set during a search, no transposition    *)
(* table entry is written for the remainder of that search.                *)
NoStoreAfterStop ==
    [][(stop_search /\ ~Idle) => tt' = tt]_vars

(* A frame of the move loop, and one waiting on its null-move search, have *)
(* returned from an aborted search.                                        *)
StoppedInMoveLoop ==
    /\ stop_search /\ ~Idle
    /\ Returned("negamax") /\ done.via = "stop" /\ done.depth = MaxDepth
    /\ board.pos = RX

(* C25. A table entry decides negamax's return value only when its stored  *)
(* depth is at least the requested depth, and then as: exact -> its score; *)
(* upper bound with score <= alpha -> alpha; lower bound with score >=     *)
(* beta -> beta.  A shallower entry causes no early return and gives only  *)
(* its best move, to the move ordering.                                    *)
TTDecides ==
    [][At("negamax", "enter") =>
         LET f == TopOf(Cur)
             pr == probe(tt, hash(board.pos))
             e == pr.entry
         IN  /\ (Len(stack') < Len(stack)
                   /\ done'.via \in {"tt_exact", "tt_alpha", "tt_beta"})
                  => /\ pr.hit /\ e.depth >= f.depth
                     /\ \/ e.flag = "TT_EXACT" /\ ret' = e.score
                        \/ e.flag = "TT_ALPHA" /\ e.score <= f.alpha /\ ret' = f.alpha
                        \/ e.flag = "TT_BETA" /\ e.score >= f.beta /\ ret' = f.beta
             /\ (pr.hit /\ e.depth < f.depth /\ Len(stack') >= Len(stack)
                   /\ f.depth > 0)
                  => /\ stack'[Len(stack)].tt_move = e.best_move
                     /\ tt' = tt]_vars

(* An upper bound of sufficient depth has decided a call.                  *)
TTBoundDecided ==
    /\ Returned("negamax") /\ done.via = "tt_alpha"
    /\ done.depth >= 1 /\ done.score = done.alpha

TTMoveFirst ==
    (done.fn = "order_moves" /\ done.tt_move # NO_MOVE)
      => /\ done.ordered[1].id = done.tt_move
         /\ \A i, j \in 1..Len(done.moves) :
              (done.moves[i].id = done.tt_move /\ j # i)
                => MoveKey(done.moves[i], done.tt_move)
                     > MoveKey(done.moves[j], done.tt_move)

(* The tt_move, a quiet move listed second, went ahead of a pawn's capture *)
(* of a queen with check.                                                  *)
QuietTTMoveAheadOfCapture ==
    /\ done.fn = "order_moves" /\ done.tt_move = 2
    /\ done.moves = << Capture(1, MM, "Q", "P"), Quiet(2, SW) >>
    /\ done.ordered = << Quiet(2, SW), Capture(1, MM, "Q", "P") >>

(* C28. For every capturing and captured piece type the key                *)
(* piece_values[captured] - piece_values[mover] + 1000 is positive, so     *)
(* every capture is ordered ahead of every non-capturing, non-promoting    *)
(* move that does not give check, and captures come before promotions.     *)
CapturesFirst ==
    (done.fn = "order_moves" /\ done.tt_move = NO_MOVE)
      => \A i, j \in 1..Len(done.ordered) :
            LET a == done.ordered[i]
                b == done.ordered[j]
            IN  (a.cap /\ ~b.cap)
                  => /\ piece_values(a.vic) - piece_values(a.att) + 1000 > 0
                     /\ (b.promo = "-" /\ ~inCheck(b.to)) => i < j
                     /\ (b.promo # "-") => i < j

(* The position the moves lead to from p, or -1 once one of them is not a  *)
(* legal move.                                                             *)
RECURSIVE LineEnd(_, _, _)
LineEnd(g, p, moves) ==
    IF moves = << >> \/ p = -1 THEN p
    ELSE LET next == {mv.to : mv \in {g.moves[p][i] : i \in 1..Len(g.moves[p])}
                                \cap {mv \in [id : 1..9, to : 0..8] : mv.id = Head(moves)}}
         IN  LineEnd(g, IF next = {} THEN -1 ELSE CHOOSE q \in next : TRUE,
                     Tail(moves))

(* C29. The value alpha_beta_pruning returns with its FEN-keyed cache is    *)
(* the value of plain depth-limited minimax, for every position and depth, *)
(* and whenever the root value is +1 or -1 the returned move list is a     *)
(* complete line from the root to checkmate.                               *)
CacheSoundness ==
    done.fn = "solve_mate_in_n"
      => /\ done.value
              = minimax(done.game, [board |-> 0, history |-> << >>,
                                    max_depth |-> done.depth], TRUE, done.depth)
         /\ done.value \in {1, -1}
              => LineEnd(done.game, 0, done.moves) \in done.game.mated

====
